---- MODULE Spec2Model ----
(***************************************************************************)
(* Kika (src/main.py): the configuration store (load_config, save_config,  *)
(* get_config, set_config), the settings resolution (get_rpc,              *)
(* get_contract_address, get_private_key), the chain connector             *)
(* (connect_web3, get_contract, symbol_to_hash) and the price formatter    *)
(* (fmt_price_e8).                                                         *)
(*                                                                         *)
(* Python values are tagged pairs <<tag, payload>>; a dict is the sequence *)
(* of its <<key, value>> items in insertion order.  The config file is a   *)
(* sequence of JSON tokens, written by json.dump and read by json.load.    *)
(***************************************************************************)
EXTENDS Integers, Sequences, FiniteSets, TLC

\* ---------------------------------------------------------------------------
\* Constants of the program
\* ---------------------------------------------------------------------------
DEFAULT_RPC == "https://eth.llamarpc.com"

\* ---------------------------------------------------------------------------
\* Bounds of the model
\* ---------------------------------------------------------------------------
\* chunks a nearly full disk still takes
PartialChunks == 3
\* prices are taken from each anchor up to anchor + MaxOffset
MaxOffset == 15

\* ---------------------------------------------------------------------------
\* Python values
\* ---------------------------------------------------------------------------
PyStr(s) == <<"str", s>>
PyNone == <<"None", "">>
PyDict(items) == <<"dict", items>>
PyList(elems) == <<"list", elems>>
\* a Python object the json module has no encoding for (a set)
PySet == <<"set", "">>
PyTrue == <<"bool", "True">>
PyFalse == <<"bool", "False">>

Tag(v) == v[1]
Payload(v) == v[2]
EmptyDict == PyDict(<<>>)

\* bool(v): the truth value the `or` chains of get_rpc and friends test
Truthy(v) ==
    CASE Tag(v) = "str" -> Payload(v) /= ""
      [] Tag(v) = "None" -> FALSE
      [] Tag(v) = "bool" -> v = PyTrue
      [] Tag(v) = "dict" -> Len(Payload(v)) > 0
      [] Tag(v) = "list" -> Len(Payload(v)) > 0
      [] OTHER -> TRUE

\* a or b
PyOr(a, b) == IF Truthy(a) THEN a ELSE b

HasKey(items, k) == \E i \in 1..Len(items) : items[i][1] = k

\* dict.get(key, default) on the items of a dict
DictGet(items, k, default) ==
    IF HasKey(items, k)
    THEN items[CHOOSE i \in 1..Len(items) : items[i][1] = k][2]
    ELSE default

\* c[key] = value on the items of a dict: replace in place, or append
DictSet(items, k, v) ==
    IF HasKey(items, k)
    THEN [i \in 1..Len(items) |-> IF items[i][1] = k THEN <<k, v>> ELSE items[i]]
    ELSE Append(items, <<k, v>>)

\* ---------------------------------------------------------------------------
\* JSON text as tokens
\* ---------------------------------------------------------------------------
P(c) == <<"p", c>>
\* a string literal
S(s) == <<"s", s>>
\* white space (json.dump's indentation and the blank after a colon)
WS == <<"p", " ">>
\* bytes that are not UTF-8
BadBytes == <<"x", "">>

IsWs(t) == t = WS

RECURSIVE EncodeItems(_, _), EncodeElems(_, _), Encode(_)

\* json.dump(data, f, indent=2): the chunks written, and whether the encoder
\* finished; on an unsupported object it raises TypeError after the chunks
\* before it have been written
Encode(v) ==
    CASE Tag(v) = "str" -> [toks |-> <<S(Payload(v))>>, ok |-> TRUE]
      [] Tag(v) = "None" -> [toks |-> <<P("null")>>, ok |-> TRUE]
      [] Tag(v) = "dict" ->
            IF Len(Payload(v)) = 0
            THEN [toks |-> <<P("{"), P("}")>>, ok |-> TRUE]
            ELSE LET r == EncodeItems(Payload(v), 1)
                 IN  IF r.ok
                     THEN [toks |-> <<P("{")>> \o r.toks \o <<WS, P("}")>>, ok |-> TRUE]
                     ELSE [toks |-> <<P("{")>> \o r.toks, ok |-> FALSE]
      [] Tag(v) = "list" ->
            IF Len(Payload(v)) = 0
            THEN [toks |-> <<P("["), P("]")>>, ok |-> TRUE]
            ELSE LET r == EncodeElems(Payload(v), 1)
                 IN  IF r.ok
                     THEN [toks |-> <<P("[")>> \o r.toks \o <<WS, P("]")>>, ok |-> TRUE]
                     ELSE [toks |-> <<P("[")>> \o r.toks, ok |-> FALSE]
      [] OTHER -> [toks |-> <<>>, ok |-> FALSE]

EncodeItems(items, i) ==
    IF i > Len(items) THEN [toks |-> <<>>, ok |-> TRUE]
    ELSE LET sep == IF i = 1 THEN <<WS>> ELSE <<P(","), WS>>
             head == sep \o <<S(items[i][1]), P(":"), WS>>
             val == Encode(items[i][2])
         IN  IF ~val.ok
             THEN [toks |-> head \o val.toks, ok |-> FALSE]
             ELSE LET rest == EncodeItems(items, i + 1)
                  IN  [toks |-> head \o val.toks \o rest.toks, ok |-> rest.ok]

EncodeElems(elems, i) ==
    IF i > Len(elems) THEN [toks |-> <<>>, ok |-> TRUE]
    ELSE LET sep == IF i = 1 THEN <<WS>> ELSE <<P(","), WS>>
             val == Encode(elems[i])
         IN  IF ~val.ok
             THEN [toks |-> sep \o val.toks, ok |-> FALSE]
             ELSE LET rest == EncodeElems(elems, i + 1)
                  IN  [toks |-> sep \o val.toks \o rest.toks, ok |-> rest.ok]

RECURSIVE SkipWs(_, _)
SkipWs(toks, i) ==
    IF i <= Len(toks) /\ IsWs(toks[i]) THEN SkipWs(toks, i + 1) ELSE i

Fail == [ok |-> FALSE, val |-> PyNone, next |-> 0]

RECURSIVE ParseValue(_, _), ParseMembers(_, _, _), ParseElems(_, _, _)

\* the JSON decoder at token i: the value and the index after it
ParseValue(toks, i) ==
    IF i > Len(toks) THEN Fail
    ELSE LET t == toks[i]
         IN  CASE t[1] = "s" -> [ok |-> TRUE, val |-> PyStr(t[2]), next |-> i + 1]
               [] t = P("null") -> [ok |-> TRUE, val |-> PyNone, next |-> i + 1]
               [] t = P("{") ->
                    LET j == SkipWs(toks, i + 1)
                    IN  IF j <= Len(toks) /\ toks[j] = P("}")
                        THEN [ok |-> TRUE, val |-> EmptyDict, next |-> j + 1]
                        ELSE ParseMembers(toks, j, <<>>)
               [] t = P("[") ->
                    LET j == SkipWs(toks, i + 1)
                    IN  IF j <= Len(toks) /\ toks[j] = P("]")
                        THEN [ok |-> TRUE, val |-> PyList(<<>>), next |-> j + 1]
                        ELSE ParseElems(toks, j, <<>>)
               [] OTHER -> Fail

\* "key": value pairs up to the closing brace; a repeated key keeps its
\* first position and takes the last value
ParseMembers(toks, i, acc) ==
    IF i > Len(toks) \/ toks[i][1] /= "s" THEN Fail
    ELSE LET k == toks[i][2]
             c == SkipWs(toks, i + 1)
         IN  IF c > Len(toks) \/ toks[c] /= P(":") THEN Fail
             ELSE LET v == ParseValue(toks, SkipWs(toks, c + 1))
                  IN  IF ~v.ok THEN Fail
                      ELSE LET acc2 == DictSet(acc, k, v.val)
                               e == SkipWs(toks, v.next)
                           IN  IF e > Len(toks) THEN Fail
                               ELSE IF toks[e] = P("}")
                               THEN [ok |-> TRUE, val |-> PyDict(acc2), next |-> e + 1]
                               ELSE IF toks[e] = P(",")
                               THEN ParseMembers(toks, SkipWs(toks, e + 1), acc2)
                               ELSE Fail

ParseElems(toks, i, acc) ==
    LET v == ParseValue(toks, i)
    IN  IF ~v.ok THEN Fail
        ELSE LET acc2 == Append(acc, v.val)
                 e == SkipWs(toks, v.next)
             IN  IF e > Len(toks) THEN Fail
                 ELSE IF toks[e] = P("]")
                 THEN [ok |-> TRUE, val |-> PyList(acc2), next |-> e + 1]
                 ELSE IF toks[e] = P(",")
                 THEN ParseElems(toks, SkipWs(toks, e + 1), acc2)
                 ELSE Fail

\* the decoder's result v for the whole text: one value must span it
Decoded(toks, v) ==
    IF v.ok /\ SkipWs(toks, v.next) > Len(toks)
    THEN [kind |-> "return", exc |-> "", val |-> v.val]
    ELSE [kind |-> "raise", exc |-> "JSONDecodeError", val |-> PyNone]

\* json.load(f): f.read() decodes the whole file (UnicodeDecodeError on bytes
\* that are not UTF-8), then one value must span the text (JSONDecodeError)
JsonLoad(toks) ==
    IF \E i \in 1..Len(toks) : toks[i] = BadBytes
    THEN [kind |-> "raise", exc |-> "UnicodeDecodeError", val |-> PyNone]
    ELSE Decoded(toks, ParseValue(toks, SkipWs(toks, 1)))

\* ---------------------------------------------------------------------------
\* The config file and the environment
\* ---------------------------------------------------------------------------
\* dir: the directory of config_path() is "present", "absent" (mkdir can
\* create it) or "blocked" (mkdir raises OSError); exists, readable, writable
\* and content describe kika_config.json itself
NoFile(d) == [dir |-> d, exists |-> FALSE, readable |-> TRUE, writable |-> TRUE, content |-> <<>>]
File(toks) == [dir |-> "present", exists |-> TRUE, readable |-> TRUE, writable |-> TRUE, content |-> toks]

Return(v) == [kind |-> "return", exc |-> "", val |-> v]
Raise(e) == [kind |-> "raise", exc |-> e, val |-> PyNone]

EnvNames == {"KIKA_RPC", "KIKA_CONTRACT", "KIKA_PRIVATE_KEY"}

\* os.environ.get(name): None when the variable is not set
EnvGet(e, name) == e[name]

\* the except clause of load_config around the outcome r of json.load
LoadCaught(r) ==
    IF r.kind = "raise" /\ r.exc = "JSONDecodeError" THEN Return(EmptyDict) ELSE r

load_config(f) ==
    IF ~f.exists THEN Return(EmptyDict)
    ELSE IF ~f.readable THEN Return(EmptyDict)
    ELSE LoadCaught(JsonLoad(f.content))

Min(a, b) == IF a < b THEN a ELSE b

\* the chunks the disk takes of n chunks written before it is full
\* (room: "none", "some", "all")
Accepted(room, n) ==
    CASE room = "none" -> 0
      [] room = "some" -> Min(PartialChunks, n)
      [] room = "all" -> n

\* the file after mkdir(parents=True, exist_ok=True) and open(path, "w"):
\* created if missing, truncated
Opened(f) ==
    [dir |-> "present", exists |-> TRUE, readable |-> IF f.exists THEN f.readable ELSE TRUE,
     writable |-> TRUE, content |-> <<>>]

\* mkdir or open(path, "w") raises OSError
OpenFails(f) == f.dir = "blocked" \/ (f.exists /\ ~f.writable)

\* toks written from offset 0 over what the file holds
Overlay(old, toks) == toks \o SubSeq(old, Len(toks) + 1, Len(old))

\* the opened file after the write of the first n chunks of toks
Written(f, toks, n) == [f EXCEPT !.content = Overlay(f.content, SubSeq(toks, 1, n))]

\* json.dump into the opened file: enc is the encoder's output, n the chunks
\* that reach the disk; the chunks written before an error stay in the file
DumpInto(f, enc, n) ==
    IF n < Len(enc.toks) THEN [out |-> Return(PyFalse), fs |-> Written(f, enc.toks, n)]
    ELSE IF ~enc.ok THEN [out |-> Raise("TypeError"), fs |-> Written(f, enc.toks, n)]
    ELSE [out |-> Return(PyTrue), fs |-> Written(f, enc.toks, n)]

\* save_config(data) with the given room on the disk: the outcome and the
\* file system afterwards.  open(path, "w") truncates before json.dump writes.
save_config(f, data, room) ==
    IF OpenFails(f) THEN [out |-> Return(PyFalse), fs |-> f]
    ELSE DumpInto(Opened(f), Encode(data), Accepted(room, Len(Encode(data).toks)))

\* .get(key, default) on the outcome c of load_config()
GetFrom(c, key, default) ==
    IF c.kind /= "return" THEN c
    ELSE IF Tag(c.val) /= "dict" THEN Raise("AttributeError")
    ELSE Return(DictGet(Payload(c.val), key, default))

\* load_config().get(key, default)
get_config(f, key, default) == GetFrom(load_config(f), key, default)

\* set_config ignores what save_config returns
SetSaved(s) ==
    [out |-> IF s.out.kind = "return" THEN Return(PyNone) ELSE s.out, fs |-> s.fs]

\* c[key] = value on the outcome c of load_config(): the mapping to save
Assigned(c, key, value) ==
    IF c.kind /= "return" THEN c
    ELSE IF Tag(c.val) /= "dict" THEN Raise("TypeError")
    ELSE Return(PyDict(DictSet(Payload(c.val), key, value)))

\* save_config(c) on the outcome c of the assignment
SetInto(f, c, room) ==
    IF c.kind /= "return" THEN [out |-> c, fs |-> f]
    ELSE SetSaved(save_config(f, c.val, room))

\* c = load_config(); c[key] = value; save_config(c)
set_config(f, key, value, room) == SetInto(f, Assigned(load_config(f), key, value), room)

\* c or a or b, c being the outcome of get_config
OrElse(c, a, b) ==
    IF c.kind /= "return" THEN c ELSE Return(PyOr(PyOr(c.val, a), b))

\* c or a
OrEnv(c, a) ==
    IF c.kind /= "return" THEN c ELSE Return(PyOr(c.val, a))

get_rpc(f, e) ==
    OrElse(get_config(f, "rpc_url", PyNone), EnvGet(e, "KIKA_RPC"), PyStr(DEFAULT_RPC))

get_contract_address(f, e) ==
    OrEnv(get_config(f, "contract_address", PyNone), EnvGet(e, "KIKA_CONTRACT"))

get_private_key(f, e) ==
    OrEnv(get_config(f, "private_key", PyNone), EnvGet(e, "KIKA_PRIVATE_KEY"))

\* ---------------------------------------------------------------------------
\* Web3
\* ---------------------------------------------------------------------------
\* the names bound at module level (imports, constants, functions)
ModuleNames ==
    {"annotations", "argparse", "json", "os", "sys", "time", "Path", "Any", "Optional",
     "APP_NAME", "VERSION", "CONFIG_FILENAME", "DEFAULT_RPC", "BAND_NAMES",
     "BAND_COLD", "BAND_MILD", "BAND_WARM", "BAND_HOT", "BAND_CRITICAL", "E8", "BPS_BASE",
     "THRMINOS_ABI", "config_path", "load_config", "save_config", "get_config", "set_config",
     "get_rpc", "get_contract_address", "get_private_key", "connect_web3", "get_contract",
     "symbol_to_hash", "fmt_price_e8"}

\* the names local to each function: parameters, assignments and imports in
\* its body
LocalNames(fn) ==
    CASE fn = "connect_web3" -> {"Web3", "rpc", "w3"}
      [] fn = "get_contract" -> {"w3", "addr"}
      [] fn = "symbol_to_hash" -> {"w3", "symbol", "contract"}

\* a name is looked up in the function's locals, then in the module
Bound(name, fn) == name \in LocalNames(fn) \cup ModuleNames

NoHandle == <<"None", "">>
Handle(rpc) == <<"Web3", rpc>>
Proxy(addr) == <<"Contract", <<addr, "THRMINOS_ABI">>>>
ToChecksum(addr) == <<"checksum", addr>>

\* Connect with a second liveness check before giving up
ConnectRetrying(rpc, alive) ==
    IF rpc.kind /= "return"
    THEN [kind |-> "raise", exc |-> rpc.exc, val |-> PyNone, checks |-> 0]
    ELSE IF ~alive
    THEN [kind |-> "raise", exc |-> "ConnectionError", val |-> rpc.val, checks |-> 2]
    ELSE [kind |-> "return", exc |-> "", val |-> Handle(rpc.val), checks |-> 1]

\* the body of connect_web3 after rpc = get_rpc(): one is_connected() call,
\* then ConnectionError(rpc) or the handle
Connect(rpc, alive) ==
    IF rpc.kind /= "return"
    THEN [kind |-> "raise", exc |-> rpc.exc, val |-> PyNone, checks |-> 0]
    ELSE IF ~alive
    THEN [kind |-> "raise", exc |-> "ConnectionError", val |-> rpc.val, checks |-> 1]
    ELSE [kind |-> "return", exc |-> "", val |-> Handle(rpc.val), checks |-> 1]

\* connect_web3(): installed says whether `from web3 import Web3` succeeds,
\* alive is the answer of the endpoint to is_connected(); checks counts the
\* is_connected() calls made
connect_web3(f, e, installed, alive) ==
    IF ~installed
    THEN [kind |-> "exit", exc |-> "SystemExit", val |-> PyNone, checks |-> 0]
    ELSE Connect(get_rpc(f, e), alive)

\* the body of get_contract after addr = get_contract_address()
Bind(addr, fn) ==
    IF addr.kind /= "return"
    THEN [kind |-> "raise", exc |-> addr.exc, val |-> PyNone, calls |-> 0]
    ELSE IF ~Truthy(addr.val)
    THEN [kind |-> "raise", exc |-> "ValueError", val |-> PyStr("Contract address not set"), calls |-> 0]
    ELSE IF ~Bound("Web3", fn)
    THEN [kind |-> "raise", exc |-> "NameError", val |-> PyStr("Web3"), calls |-> 0]
    ELSE [kind |-> "return", exc |-> "", val |-> Proxy(ToChecksum(addr.val)), calls |-> 0]

\* get_contract(w3): calls counts the calls made to the chain
get_contract(f, e, h) == Bind(get_contract_address(f, e), "get_contract")

\* Web3.to_checksum_address(addr), w3.eth.contract(...) and
\* symbolHashFromString(symbol).call() on the outcome addr of
\* get_contract_address()
HashWith(addr, symbol) ==
    IF addr.kind /= "return"
    THEN [kind |-> "raise", exc |-> addr.exc, val |-> PyNone, calls |-> 0]
    ELSE IF Tag(addr.val) /= "str"
    THEN [kind |-> "raise", exc |-> "TypeError", val |-> PyNone, calls |-> 0]
    ELSE [kind |-> "return", exc |-> "", val |-> <<"bytes32", <<ToChecksum(addr.val), symbol>>>>, calls |-> 1]

\* symbol_to_hash(w3, symbol): the arguments of w3.eth.contract(...) are
\* evaluated left to right, the name Web3 before get_contract_address()
symbol_to_hash(f, e, h, symbol) ==
    IF ~Bound("Web3", "symbol_to_hash")
    THEN [kind |-> "raise", exc |-> "NameError", val |-> PyStr("Web3"), calls |-> 0]
    ELSE HashWith(get_contract_address(f, e), symbol)

\* ---------------------------------------------------------------------------
\* Formatting
\* ---------------------------------------------------------------------------
\* Python integers are unbounded: a natural number is the sequence of its
\* decimal digits, most significant first, without leading zeros.  The
\* arithmetic below needs only powers of 10 (appended zeros) and divisions
\* by powers of 2 and of 5, which go digit by digit with no carry chain.
Zero == <<0>>

Zeros(k) == [i \in 1..k |-> 0]

\* d without its leading zeros
Strip(d) ==
    IF \A i \in 1..Len(d) : d[i] = 0 THEN Zero
    ELSE SubSeq(d, CHOOSE i \in 1..Len(d) : d[i] /= 0 /\ \A j \in 1..(i - 1) : d[j] = 0, Len(d))

Digit(d, j) == IF j >= 1 /\ j <= Len(d) THEN d[j] ELSE 0

\* the number made of the 8 digits of d that end at position hi
Num8(d, hi) ==
    Digit(d, hi - 7) * 10000000 + Digit(d, hi - 6) * 1000000 + Digit(d, hi - 5) * 100000
        + Digit(d, hi - 4) * 10000 + Digit(d, hi - 3) * 1000 + Digit(d, hi - 2) * 100
        + Digit(d, hi - 1) * 10 + Digit(d, hi)

\* d mod c and d div c for a divisor c of 10^8: long division, the remainder
\* left of digit i being the last 8 digits before it mod c
Rem(d, c) == Num8(d, Len(d)) % c

FloorDiv(d, c) ==
    Strip(SubSeq([i \in 1..Len(d) |-> ((Num8(d, i - 1) % c) * 10 + d[i]) \div c], 1, Len(d)))

\* d div b^k for b = 2 or b = 5: q is the quotient, st tells whether the
\* division left a remainder (or st was set)
RECURSIVE DivPow(_, _, _, _)
DivPow(d, b, k, st) ==
    IF k = 0 THEN [q |-> d, st |-> st]
    ELSE IF k > 8 THEN DivPow(FloorDiv(d, b^8), b, k - 8, st \/ Rem(d, b^8) /= 0)
    ELSE [q |-> FloorDiv(d, b^k), st |-> st \/ Rem(d, b^k) /= 0]

\* d * 10^k
TimesPow10(d, k) == IF d = Zero THEN Zero ELSE d \o Zeros(k)

\* d * 2^k = d * 10^k / 5^k
MulPow2(d, k) == DivPow(TimesPow10(d, k), 5, k, FALSE).q

\* a < b
Less(a, b) ==
    IF Len(a) /= Len(b) THEN Len(a) < Len(b)
    ELSE \E i \in 1..Len(a) : a[i] < b[i] /\ \A j \in 1..(i - 1) : a[j] = b[j]

IsOdd(d) == d[Len(d)] % 2 = 1

\* d + 1, p being the place of the last digit of d that is not 9
IncAt(d, p) == [i \in 1..Len(d) |-> IF i < p THEN d[i] ELSE IF i = p THEN d[i] + 1 ELSE 0]

Inc(d) ==
    IF \A i \in 1..Len(d) : d[i] = 9 THEN <<1>> \o Zeros(Len(d))
    ELSE SubSeq(IncAt(d, CHOOSE p \in 1..Len(d) : d[p] /= 9 /\ \A j \in (p + 1)..Len(d) : d[j] = 9), 1, Len(d))

\* round to nearest, ties to even: q is the value halved and floored, guard
\* the bit dropped by the halving, st whether anything was dropped before
RoundEven(q, guard, st) == IF guard /\ (st \/ IsOdd(q)) THEN Inc(q) ELSE q

\* x.q / 2 rounded, x.st telling that x.q is itself a floor
HalfRounded(x) == RoundEven(FloorDiv(x.q, 2), IsOdd(x.q), x.st)

TwoPow52 == <<4, 5, 0, 3, 5, 9, 9, 6, 2, 7, 3, 7, 0, 4, 9, 6>>
TwoPow53 == <<9, 0, 0, 7, 1, 9, 9, 2, 5, 4, 7, 4, 0, 9, 9, 2>>

\* n / 5^8 / 2^k floored
Div5Then2(x, k) == DivPow(x.q, 2, k, x.st)

\* floor(n * 2^e / 10^8) and whether it is a floor: n * 10^(e - 8) / 5^e when
\* e >= 8, n / 5^8 / 2^(8 - e) otherwise
FloorScaled(n, e) ==
    IF e >= 8 THEN DivPow(TimesPow10(n, e - 8), 5, e, FALSE)
    ELSE Div5Then2(DivPow(n, 5, 8, FALSE), 8 - e)

\* 2^52 <= floor(n * 2^sh / 10^8) < 2^53
Normalised(n, sh) ==
    /\ ~Less(FloorScaled(n, sh).q, TwoPow52)
    /\ Less(FloorScaled(n, sh).q, TwoPow53)

\* floor(log2(10^(digits - 9))), 3321928 / 10^6 approximating log2(10)
Log2Low(digits) == (3321928 * (digits - 9)) \div 1000000

\* the binary exponent of n / 10^8, n > 0: the sh with
\* 2^52 <= n * 2^sh / 10^8 < 2^53; n has Len(n) digits, so log2(n / 10^8)
\* lies between log2(10) * (Len(n) - 9) and log2(10) * (Len(n) - 8)
ShiftOf(n) ==
    CHOOSE sh \in (52 - Log2Low(Len(n)) - 5)..(52 - Log2Low(Len(n)) + 1) : Normalised(n, sh)

\* price_e8 / E8, int by int: the double nearest to the quotient (ties to
\* even), as mantissa m and exponent sh, its value being m / 2^sh
FloatAt(n, sh) == [m |-> HalfRounded(FloorScaled(n, sh + 1)), sh |-> sh]

TrueDivE8(n) == IF n = Zero THEN [m |-> Zero, sh |-> 0] ELSE FloatAt(n, ShiftOf(n))

\* format(x, ".8f"): x * 10^8 rounded to the nearest integer (ties to even),
\* x being m / 2^sh
Scaled8(x) ==
    IF x.sh >= 1 THEN HalfRounded(DivPow(TimesPow10(x.m, 8), 2, x.sh - 1, FALSE))
    ELSE MulPow2(TimesPow10(x.m, 8), 0 - x.sh)

Chr == <<"0", "1", "2", "3", "4", "5", "6", "7", "8", "9">>
Chars(d) == [i \in 1..Len(d) |-> Chr[d[i] + 1]]

\* d with leading zeros up to n digits
PadTo(d, n) == IF Len(d) < n THEN Zeros(n - Len(d)) \o d ELSE d

\* the digits of an integer scaled by 10^8 as text with 8 decimals
Point8(p) == Chars(SubSeq(p, 1, Len(p) - 8)) \o <<".">> \o Chars(SubSeq(p, Len(p) - 7, Len(p)))

Fixed8(d) == Point8(PadTo(d, 9))

\* fmt_price_e8 without the case of zero
fmt_price_e8_nozero(price_e8) == Fixed8(Scaled8(TrueDivE8(price_e8)))

fmt_price_e8(price_e8) ==
    IF price_e8 = Zero THEN <<"0">>
    ELSE Fixed8(Scaled8(TrueDivE8(price_e8)))

\* ---------------------------------------------------------------------------
\* State
\* ---------------------------------------------------------------------------
VARIABLES
    fs,     \* the config directory and file
    env,    \* the environment variables
    w3,     \* the connection handle the caller holds (NoHandle before connect)
    op,     \* the operation called last
    arg,    \* its argument
    res,    \* its outcome
    pre,    \* the file system before it
    rt,     \* the load / save / load script
    procs   \* the concurrent set_config invocations

vars == <<fs, env, w3, op, arg, res, pre, rt, procs>>

CfgKeys == <<"rpc_url", "contract_address", "private_key">>
CfgVal(k) ==
    CASE k = "rpc_url" -> PyStr("https://a")
      [] k = "contract_address" -> PyStr("0xC")
      [] k = "private_key" -> PyStr("keyC")
EnvVal(n) ==
    CASE n = "KIKA_RPC" -> PyStr("https://b")
      [] n = "KIKA_CONTRACT" -> PyStr("0xE")
      [] n = "KIKA_PRIVATE_KEY" -> PyStr("keyE")

\* what a config file may hold under one key: nothing, "", a setting, null
Held(k) == {<<>>, <<<<k, PyStr("")>>>>, <<<<k, CfgVal(k)>>>>, <<<<k, PyNone>>>>}

\* dicts over the three settings
ConfigDicts ==
    { PyDict(h) : h \in Held("rpc_url") \cup Held("contract_address") \cup Held("private_key") }
        \cup { PyDict(<<<<"rpc_url", CfgVal("rpc_url")>>, <<"contract_address", CfgVal("contract_address")>>, <<"private_key", CfgVal("private_key")>>>>) }

ObjectFiles == { File(Encode(d).toks) : d \in ConfigDicts }

\* files that hold valid JSON of another shape
OtherJsonFiles ==
    { File(<<P("["), S("https://a"), P("]")>>),
      File(<<P("null")>>),
      File(<<S("rpc_url")>>),
      File(<<P("{"), S("rpc_url"), P(":"), S("https://old"), P(","), S("rpc_url"), P(":"), S("https://a"), P("}")>>),
      File(<<P("{"), S("theme"), P(":"), P("{"), S("bands"), P(":"), P("["), S("cold"), P(","), P("null"), P("]"), P("}"), P("}"), WS>>) }

\* files that do not hold JSON
BrokenFiles ==
    { File(<<>>),
      File(<<WS>>),
      File(<<P("{"), WS, S("rpc_url"), P(":"), WS>>),
      File(<<P("{"), S("rpc_url"), P(":"), S("https://a"), P(","), P("}")>>),
      File(<<P("{"), P("}"), P("}")>>),
      File(<<P("{"), S("rpc_url"), BadBytes, P("}")>>),
      File(<<BadBytes>>) }

\* files the process may not read, or may not write
ProtectedFiles ==
    { [File(Encode(PyDict(<<<<"rpc_url", CfgVal("rpc_url")>>>>)).toks) EXCEPT !.readable = FALSE],
      [File(Encode(PyDict(<<<<"rpc_url", CfgVal("rpc_url")>>>>)).toks) EXCEPT !.writable = FALSE],
      [File(<<BadBytes>>) EXCEPT !.readable = FALSE] }

FsSamples ==
    {NoFile("present"), NoFile("absent"), NoFile("blocked")}
        \cup ObjectFiles \cup OtherJsonFiles \cup BrokenFiles \cup ProtectedFiles

EnvSamples ==
    { [n \in EnvNames |-> IF n \in set THEN EnvVal(n) ELSE PyNone] : set \in SUBSET EnvNames }
        \cup { [n \in EnvNames |-> IF n = e THEN PyStr("") ELSE PyNone] : e \in EnvNames }

\* mappings passed to save_config
SaveData ==
    { EmptyDict,
      PyDict(<<<<"rpc_url", CfgVal("rpc_url")>>, <<"contract_address", CfgVal("contract_address")>>>>),
      PyDict(<<<<"rpc_url", CfgVal("rpc_url")>>, <<"tags", PySet>>, <<"private_key", CfgVal("private_key")>>>>) }

Rooms == {"none", "some", "all"}

Idle == [pc |-> "idle"]

Init ==
    /\ fs \in FsSamples
    /\ env \in EnvSamples
    /\ w3 = NoHandle
    /\ op = "init"
    /\ arg = PyNone
    /\ res = Return(PyNone)
    /\ pre = fs
    /\ rt = Idle
    /\ procs = <<>>

Called(name, a, r) ==
    /\ op' = name
    /\ arg' = a
    /\ res' = r
    /\ pre' = fs

LoadConfig ==
    /\ Called("load_config", PyNone, load_config(fs))
    /\ UNCHANGED <<fs, env, w3, rt, procs>>

SaveConfig ==
    \E data \in SaveData, room \in Rooms :
        \E s \in {save_config(fs, data, room)} :
            /\ Called("save_config", data, s.out)
            /\ fs' = s.fs
            /\ UNCHANGED <<env, w3, rt, procs>>

SetConfig ==
    \E k \in {"rpc_url", "contract_address"}, room \in Rooms :
        \E s \in {set_config(fs, k, CfgVal(k), room)} :
            /\ Called("set_config", <<k, CfgVal(k)>>, s.out)
            /\ fs' = s.fs
            /\ UNCHANGED <<env, w3, rt, procs>>

GetRpc ==
    /\ Called("get_rpc", PyNone, get_rpc(fs, env))
    /\ UNCHANGED <<fs, env, w3, rt, procs>>

GetContractAddress ==
    /\ Called("get_contract_address", PyNone, get_contract_address(fs, env))
    /\ UNCHANGED <<fs, env, w3, rt, procs>>

GetPrivateKey ==
    /\ Called("get_private_key", PyNone, get_private_key(fs, env))
    /\ UNCHANGED <<fs, env, w3, rt, procs>>

ConnectWeb3 ==
    \E installed \in BOOLEAN, alive \in BOOLEAN :
        \E r \in {connect_web3(fs, env, installed, alive)} :
            /\ Called("connect_web3", <<installed, alive>>, r)
            /\ w3' = IF r.kind = "return" THEN r.val ELSE w3
            /\ UNCHANGED <<fs, env, rt, procs>>

GetContract ==
    /\ w3 /= NoHandle
    /\ Called("get_contract", w3, get_contract(fs, env, w3))
    /\ UNCHANGED <<fs, env, w3, rt, procs>>

SymbolToHash ==
    /\ w3 /= NoHandle
    /\ \E symbol \in {"BTC"} :
        Called("symbol_to_hash", <<w3, symbol>>, symbol_to_hash(fs, env, w3, symbol))
    /\ UNCHANGED <<fs, env, w3, rt, procs>>

Next ==
    \/ LoadConfig
    \/ SaveConfig
    \/ SetConfig
    \/ GetRpc
    \/ GetContractAddress
    \/ GetPrivateKey
    \/ ConnectWeb3
    \/ GetContract
    \/ SymbolToHash

Spec == Init /\ [][Next]_vars

\* ---------------------------------------------------------------------------
\* load_config(), save_config() of the loaded value, load_config()
\* ---------------------------------------------------------------------------
NoEnv == [n \in EnvNames |-> PyNone]

InitRoundTrip ==
    /\ fs \in FsSamples
    /\ env = NoEnv
    /\ w3 = NoHandle
    /\ op = "init"
    /\ arg = PyNone
    /\ res = Return(PyNone)
    /\ pre = fs
    /\ rt = [pc |-> "start", first |-> Return(PyNone), saved |-> Return(PyNone), room |-> "all",
             second |-> Return(PyNone)]
    /\ procs = <<>>

RtLoad ==
    /\ rt.pc = "start"
    /\ \E r \in {load_config(fs)} :
        rt' = [rt EXCEPT !.pc = IF r.kind = "return" THEN "loaded" ELSE "raised", !.first = r]
    /\ UNCHANGED <<fs, env, w3, op, arg, res, pre, procs>>

RtSave ==
    /\ rt.pc = "loaded"
    /\ \E room \in Rooms :
        \E s \in {save_config(fs, rt.first.val, room)} :
            /\ rt' = [rt EXCEPT !.pc = IF s.out.kind = "return" THEN "saved" ELSE "raised",
                                !.saved = s.out, !.room = room]
            /\ fs' = s.fs
    /\ UNCHANGED <<env, w3, op, arg, res, pre, procs>>

RtReload ==
    /\ rt.pc = "saved"
    /\ \E r \in {load_config(fs)} :
        rt' = [rt EXCEPT !.pc = IF r.kind = "return" THEN "done" ELSE "raised", !.second = r]
    /\ UNCHANGED <<fs, env, w3, op, arg, res, pre, procs>>

NextRoundTrip == RtLoad \/ RtSave \/ RtReload

SpecRoundTrip == InitRoundTrip /\ [][NextRoundTrip]_vars

\* the file holds valid JSON and the file system lets the process read and
\* rewrite it
ValidJsonFile(f) ==
    /\ f.exists /\ f.readable /\ f.writable
    /\ JsonLoad(f.content).kind = "return"

\* C3: for every valid JSON config file, load, save of the loaded value and
\* load again give a mapping equal to the first loaded mapping, and the save
\* reports success.
C3_RoundTrip ==
    (ValidJsonFile(pre) /\ rt.pc \in {"saved", "done", "raised"} /\ rt.room = "all") =>
        /\ rt.pc /= "raised"
        /\ rt.saved = Return(PyTrue)
        /\ rt.pc = "done" =>
            /\ rt.second = rt.first
            /\ Tag(rt.second.val) = "dict"

\* ---------------------------------------------------------------------------
\* Two processes in set_config
\* ---------------------------------------------------------------------------
Procs == {1, 2}
KeyOf(p) == IF p = 1 THEN "rpc_url" ELSE "contract_address"

InitSet ==
    /\ fs \in FsSamples
    /\ env = NoEnv
    /\ w3 = NoHandle
    /\ op = "init"
    /\ arg = PyNone
    /\ res = Return(PyNone)
    /\ pre = fs
    /\ rt = Idle
    /\ procs = [pc |-> [p \in Procs |-> "start"],
                c |-> [p \in Procs |-> Return(PyNone)],
                last |-> 0,
                mixed |-> FALSE,
                torn |-> FALSE]

Running(p) == procs.pc[p] \in {"loaded", "opened"}

\* c = load_config(); c[key] = value
SetLoad(p) ==
    /\ procs.pc[p] = "start"
    /\ \E c \in {Assigned(load_config(fs), KeyOf(p), CfgVal(KeyOf(p)))} :
        procs' = [procs EXCEPT !.pc[p] = IF c.kind = "return" THEN "loaded" ELSE "raised",
                               !.c[p] = c,
                               !.mixed = @ \/ \E q \in Procs \ {p} : Running(q)]
    /\ UNCHANGED <<fs, env, w3, op, arg, res, pre, rt>>

\* save_config(c) up to open(path, "w"); an OSError ends it with False
SetOpen(p) ==
    /\ procs.pc[p] = "loaded"
    /\ procs' = [procs EXCEPT !.pc[p] = IF OpenFails(fs) THEN "done" ELSE "opened",
                              !.mixed = @ \/ \E q \in Procs \ {p} : Running(q),
                              !.torn = @ \/ \E q \in Procs \ {p} : procs.pc[q] = "opened"]
    /\ fs' = IF OpenFails(fs) THEN fs ELSE Opened(fs)
    /\ UNCHANGED <<env, w3, op, arg, res, pre, rt>>

\* json.dump(data, f, indent=2) and the close of the file
SetWrite(p) ==
    /\ procs.pc[p] = "opened"
    /\ procs' = [procs EXCEPT !.pc[p] = "done",
                              !.last = p,
                              !.mixed = @ \/ \E q \in Procs \ {p} : Running(q)]
    /\ fs' = Written(fs, Encode(procs.c[p].val).toks, Len(Encode(procs.c[p].val).toks))
    /\ UNCHANGED <<env, w3, op, arg, res, pre, rt>>

NextSet == \E p \in Procs : SetLoad(p) \/ SetOpen(p) \/ SetWrite(p)

SpecSet == InitSet /\ [][NextSet]_vars

Finished == \A p \in Procs : procs.pc[p] \in {"done", "raised"}

\* the mapping a healthy file system holds at the start
Stored(f) == IF load_config(f).kind = "return" /\ Tag(load_config(f).val) = "dict"
             THEN Payload(load_config(f).val) ELSE <<>>

Healthy(f) == f.dir /= "blocked" /\ (f.exists => (f.readable /\ f.writable))

\* C10: after two set_config invocations on different keys, the persisted
\* config is the mapping saved by the invocation that saved last (no open
\* file being truncated under a writer); when the invocations did not
\* interleave, both keys are present and every other stored key keeps its
\* value.
C10_LastWriterWins ==
    (Finished /\ Healthy(pre)) =>
        /\ (~procs.torn /\ procs.last /= 0) => load_config(fs) = procs.c[procs.last]
        /\ ~procs.mixed =>
            /\ load_config(fs).kind = "return"
            /\ Tag(load_config(fs).val) = "dict"
            /\ \A p \in Procs : DictGet(Payload(load_config(fs).val), KeyOf(p), PyNone) = CfgVal(KeyOf(p))
            /\ \A i \in 1..Len(Stored(pre)) :
                    Stored(pre)[i][1] \notin {KeyOf(1), KeyOf(2)} =>
                        DictGet(Payload(load_config(fs).val), Stored(pre)[i][1], PySet) = Stored(pre)[i][2]

\* ---------------------------------------------------------------------------
\* fmt_price_e8 on prices around the anchors
\* ---------------------------------------------------------------------------
\* 0; 99999980; 10^8; 123456780; 2^26 * 10^8; 2^53 - 12; 2^64 - 36;
\* 2^53 * 10^8 - 20; 2^200 + 44
Anchors ==
    { <<0, 0>>,
      <<9, 9, 9, 9, 9, 9, 8, 0>>,
      <<1, 0, 0, 0, 0, 0, 0, 0, 0>>,
      <<1, 2, 3, 4, 5, 6, 7, 8, 0>>,
      <<6, 7, 1, 0, 8, 8, 6, 4, 0, 0, 0, 0, 0, 0, 0, 0>>,
      <<9, 0, 0, 7, 1, 9, 9, 2, 5, 4, 7, 4, 0, 9, 8, 0>>,
      <<1, 8, 4, 4, 6, 7, 4, 4, 0, 7, 3, 7, 0, 9, 5, 5, 1, 5, 8, 0>>,
      <<9, 0, 0, 7, 1, 9, 9, 2, 5, 4, 7, 4, 0, 9, 9, 1, 9, 9, 9, 9, 9, 9, 8, 0>>,
      <<1, 6, 0, 6, 9, 3, 8, 0, 4, 4, 2, 5, 8, 9, 9, 0, 2, 7, 5, 5, 4, 1, 9, 6, 2, 0, 9, 2, 3, 4, 1,
        1, 6, 2, 6, 0, 2, 5, 2, 2, 2, 0, 2, 9, 9, 3, 7, 8, 2, 7, 9, 2, 8, 3, 5, 3, 0, 1, 4, 2, 0>> }

\* a + k, the sum of k and the last two digits of a staying below 100
Offset(a, k) ==
    Strip(SubSeq(a, 1, Len(a) - 2)
            \o <<(a[Len(a) - 1] * 10 + a[Len(a)] + k) \div 10, (a[Len(a) - 1] * 10 + a[Len(a)] + k) % 10>>)

Prices == { Offset(a, k) : a \in Anchors, k \in 0..MaxOffset }

InitFmt ==
    /\ fs = NoFile("present")
    /\ env = NoEnv
    /\ w3 = NoHandle
    /\ op = "init"
    /\ arg \in Prices
    /\ res = <<>>
    /\ pre = fs
    /\ rt = Idle
    /\ procs = <<>>

FmtPriceE8 ==
    /\ op = "init"
    /\ op' = "fmt_price_e8"
    /\ res' = fmt_price_e8(arg)
    /\ UNCHANGED <<fs, env, w3, arg, pre, rt, procs>>

NextFmt == FmtPriceE8

SpecFmt == InitFmt /\ [][NextFmt]_vars

IsDigit(c) == \E i \in 1..10 : Chr[i] = c

\* C6: fmt_price_e8 renders 0 as "0" and every other price with exactly 8
\* digits after the point: 123456789 as "1.23456789", 100000000 as
\* "1.00000000".
C6_FixedEightDecimals ==
    op = "fmt_price_e8" =>
        /\ arg = Zero => res = <<"0">>
        /\ arg = <<1, 2, 3, 4, 5, 6, 7, 8, 9>> => res = <<"1", ".", "2", "3", "4", "5", "6", "7", "8", "9">>
        /\ arg = <<1, 0, 0, 0, 0, 0, 0, 0, 0>> => res = <<"1", ".", "0", "0", "0", "0", "0", "0", "0", "0">>
        /\ arg /= Zero =>
            /\ Len(res) >= 10
            /\ res[Len(res) - 8] = "."
            /\ \A i \in 1..Len(res) : i /= Len(res) - 8 => IsDigit(res[i])
            /\ (Len(res) > 10 => res[1] /= "0")

\* zero was formatted, and so was a price of 8 decimals
C6_Witness ==
    /\ op = "fmt_price_e8"
    /\ \/ arg = Zero /\ res = <<"0">>
       \/ arg = <<1, 2, 3, 4, 5, 6, 7, 8, 9>> /\ res = <<"1", ".", "2", "3", "4", "5", "6", "7", "8", "9">>

\* n div 10^8, a point, n mod 10^8 on 8 digits
Exact8(n) == Fixed8(n)

\* C7: fmt_price_e8 is exact for every non-zero price, also beyond 2^53.
C7_ExactBeyondFloat ==
    (op = "fmt_price_e8" /\ arg /= Zero) => res = Exact8(arg)

\* ---------------------------------------------------------------------------
\* Properties of the config store and the connector (under Spec)
\* ---------------------------------------------------------------------------
\* the file is missing, unreadable, empty or does not hold JSON
Corrupted(f) == ~f.exists \/ ~f.readable \/ JsonLoad(f.content).kind = "raise"

\* C1: load_config() never raises and always returns a mapping, the empty
\* mapping when the file is missing, empty or corrupted.
C1_LoadReturnsMapping ==
    op = "load_config" =>
        /\ res.kind = "return"
        /\ Tag(res.val) = "dict"
        /\ (Corrupted(fs) => res.val = EmptyDict)

\* the config holds a value under key k: the file is a JSON object with a
\* member k that is not null and not empty
ConfigHas(f, k) ==
    /\ load_config(f).kind = "return"
    /\ Tag(load_config(f).val) = "dict"
    /\ Truthy(DictGet(Payload(load_config(f).val), k, PyNone))

\* what the precedence rule resolves key k to: the config value, else the
\* value of environment variable n when it is set to something, else default
Resolves(r, f, e, k, n, default) ==
    IF ConfigHas(f, k) THEN r = Return(DictGet(Payload(load_config(f).val), k, PyNone))
    ELSE IF Truthy(e[n]) THEN r = Return(e[n])
    ELSE IF default /= PyNone THEN r = Return(default)
    ELSE r.kind = "return" /\ ~Truthy(r.val)

\* C2: each setting resolves to the config value when the config has one,
\* else to the environment variable when it is set, else (RPC only) to the
\* default.
C2_Precedence ==
    /\ op = "get_rpc" => Resolves(res, fs, env, "rpc_url", "KIKA_RPC", PyStr(DEFAULT_RPC))
    /\ op = "get_contract_address" => Resolves(res, fs, env, "contract_address", "KIKA_CONTRACT", PyNone)
    /\ op = "get_private_key" => Resolves(res, fs, env, "private_key", "KIKA_PRIVATE_KEY", PyNone)

\* get_contract_address() finds no address in the config or in KIKA_CONTRACT
NoAddress(f, e) ==
    /\ get_contract_address(f, e).kind = "return"
    /\ ~Truthy(get_contract_address(f, e).val)

\* C4: with no contract address resolvable, get_contract and symbol_to_hash
\* fail with the configuration error (ValueError) before any call to the chain.
C4_NoAddressIsConfigError ==
    (op \in {"get_contract", "symbol_to_hash"} /\ NoAddress(fs, env)) =>
        /\ res.kind = "raise"
        /\ res.exc = "ValueError"
        /\ res.calls = 0

\* C5: connect_web3() makes one liveness check on the endpoint get_rpc()
\* resolves; it raises ConnectionError naming the endpoint when the check
\* fails, with no retry, and returns the handle when it succeeds.
C5_ConnectFailsFast ==
    op = "connect_web3" =>
        /\ res.checks <= 1
        /\ (res.checks = 1 /\ ~arg[2]) =>
                /\ res.kind = "raise"
                /\ res.exc = "ConnectionError"
                /\ res.val = get_rpc(fs, env).val
        /\ (arg[1] /\ get_rpc(fs, env).kind = "return") =>
                /\ res.checks = 1
                /\ ~arg[2] => res.exc = "ConnectionError"
                /\ arg[2] => (res.kind = "return" /\ res.val = Handle(get_rpc(fs, env).val) /\ w3 = res.val)

\* the endpoint of the config file did not answer: ConnectionError names it
C5_Witness ==
    /\ op = "connect_web3"
    /\ res.kind = "raise"
    /\ res.exc = "ConnectionError"
    /\ res.val = PyStr("https://a")
    /\ res.checks = 1

\* C8: save_config never raises; it returns True when the file was fully
\* written and False otherwise, and the stored content is unchanged unless it
\* returns True.
C8_SaveNeverRaises ==
    op = "save_config" =>
        /\ res.kind = "return"
        /\ res.val \in {PyTrue, PyFalse}
        /\ res.val = PyTrue => (fs.exists /\ Encode(arg).ok /\ fs.content = Encode(arg).toks)
        /\ res.val /= PyTrue => (fs.exists = pre.exists /\ fs.content = pre.content)

\* get_contract_address() finds an address
HasAddress(f, e) ==
    /\ get_contract_address(f, e).kind = "return"
    /\ Truthy(get_contract_address(f, e).val)

\* C9: with a handle from connect_web3() and a resolvable address,
\* get_contract returns the proxy bound to THRMINOS_ABI and symbol_to_hash
\* finds every name it uses.
C9_BindSucceeds ==
    /\ (op = "get_contract" /\ HasAddress(fs, env)) =>
            (res.kind = "return" /\ res.val = Proxy(ToChecksum(get_contract_address(fs, env).val)))
    /\ (op = "symbol_to_hash" /\ HasAddress(fs, env)) => res.exc /= "NameError"
====
